---- MODULE Spec2Model ----
(***************************************************************************)
(* Rider-to-vehicle matching of the platform API: supply requests, the     *)
(* operator inbox, vehicle auto-assignment on accept, commitments and      *)
(* pickup verification, as concurrent request handlers over one            *)
(* PostgreSQL database (READ COMMITTED, row locks).                        *)
(*                                                                         *)
(* Fixed point: scores are in hundredths of a point, distances in tenths   *)
(* of a kilometre, coordinates in thousandths of a degree.                 *)
(***************************************************************************)
EXTENDS Integers, Sequences, FiniteSets, TLC

NULL == "NULL"

\* ------------------------------------------------------------------ bounds
MaxCalls == 4

\* --------------------------------------------------------------- constants
NoTime == -1
NoScore == -1
NoReasons == <<NULL>>

Procs == {"p1", "p2"}
Riders == {"ra", "rb"}
\* pick_operator_for_lane: the operator a request goes to when none is chosen
DefaultOperator == "eleride-fleet"
Operators == {DefaultOperator, "opb"}
Vehicles == {"v1", "v2", "v3"}
Lanes == {"store:PUNE:WAKAD"}
Users == {"u1"}

InboxStates == {"NEW", "CONTACTED", "ONBOARDED", "REJECTED"}

\* lane_anchor("store:PUNE:WAKAD", None, None), in thousandths of a degree
LaneLat == 18505
LaneLon == 73854

\* accept: bounding box half-widths, thousandths of a degree
BoxLat == 550
BoxLon == 700

\* create_request -> recommend(max_km=8.0, min_battery_pct=20.0, max_telemetry_age_min=120.0)
RecMaxKm10 == 80
RecMinBatt == 20
RecMaxAge == 120
\* accept -> score_vehicle(max_km=12.0, min_batt=20.0, max_age_min=240.0)
AccMaxKm10 == 120
AccMinBatt == 20
AccMaxAge == 240
\* commitment created on ONBOARDED: min_days
CommitDays == 5

NoNum == -1

\* The vehicle registry as the handlers read it.  dist10 is
\* haversine_km(last_lat, last_lon, lane anchor) in tenths of a km; age is
\* the telemetry age in minutes; created orders Vehicle.created_at.
Fleet ==
  [v \in Vehicles |->
     CASE v = "v1" -> [op |-> DefaultOperator, reg |-> <<"m", "1">>, lat |-> 18520, lon |-> 73860,
                       dist10 |-> 18, battery |-> 90, age |-> 10, created |-> 1]
       [] v = "v2" -> [op |-> DefaultOperator, reg |-> <<"M", "2", " ">>, lat |-> 19200, lon |-> 73900,
                       dist10 |-> 774, battery |-> 95, age |-> 30, created |-> 2]
       [] v = "v3" -> [op |-> "opb", reg |-> <<"m", "3">>, lat |-> 18540, lon |-> 73880,
                       dist10 |-> 48, battery |-> 50, age |-> 20, created |-> 3]]

Min(a, b) == IF a <= b THEN a ELSE b
Max(a, b) == IF a >= b THEN a ELSE b

\* --------------------------------------------------------------- variables
VARIABLES
  reqs,         \* supply_requests: sequence of rows, id = index
  inbox,        \* operator_request_inbox: sequence of rows, id = index
  commitments,  \* commitments: sequence of rows, id = index
  vstatus,      \* vehicles.status
  now,          \* the clock: it advances whenever a call begins
  rlock,        \* row lock on a supply_requests row: holder or NULL
  ilock,        \* row lock on an operator_request_inbox row
  vlock,        \* row lock on a vehicles row
  pc,           \* position of each request handler
  call,         \* the call each handler serves and its arguments
  loc,          \* the handler's local variables
  result,       \* what the handler returns
  wrote,        \* history: the handler's call has changed a row
  ncalls,       \* history: calls begun
  ntrans,       \* history: per request, changes of an inbox row into ONBOARDED
  ncommit,      \* history: per request, commitments created for such a change
  rets,         \* history: what the accept calls on one request have returned
  probe         \* the last query of a read-only function and its answer

vars == <<reqs, inbox, commitments, vstatus, now, rlock, ilock, vlock,
          pc, call, loc, result, wrote, ncalls, ntrans, ncommit, rets, probe>>
hist == <<ntrans, ncommit, rets, probe>>

db == <<reqs, inbox, commitments, vstatus>>
locks == <<rlock, ilock, vlock>>

ReqIds == 1..MaxCalls
InboxIds == 1..MaxCalls

NoCall == [name |-> "idle", op |-> NULL, r |-> 0, rider |-> NULL, lane |-> NULL,
           state |-> NULL, note |-> NULL, code |-> <<>>, v |-> NULL, user |-> NULL,
           t0 |-> NoTime, cid |-> 0, action |-> NULL]
NoLoc == [rows |-> {}, prev |-> NULL, prevnote |-> NULL, blocked |-> {}, chosen |-> NULL,
          top |-> NULL, topscore |-> NoScore, topreasons |-> NoReasons, newreq |-> 0]
NoResult == [kind |-> "none", v |-> NULL, t |-> NoTime]
NoProbe == [name |-> "none"]

Init ==
  /\ reqs = <<>>
  /\ inbox = <<>>
  /\ commitments = <<>>
  /\ vstatus = [v \in Vehicles |-> "ACTIVE"]
  /\ now = 0
  /\ rlock = [r \in ReqIds |-> NULL]
  /\ ilock = [i \in InboxIds |-> NULL]
  /\ vlock = [v \in Vehicles |-> NULL]
  /\ pc = [p \in Procs |-> "idle"]
  /\ call = [p \in Procs |-> NoCall]
  /\ loc = [p \in Procs |-> NoLoc]
  /\ result = [p \in Procs |-> NoResult]
  /\ wrote = [p \in Procs |-> FALSE]
  /\ ncalls = 0
  /\ ntrans = [r \in ReqIds |-> 0]
  /\ ncommit = [r \in ReqIds |-> 0]
  /\ rets = {}
  /\ probe = NoProbe

\* ------------------------------------------------------------ text helpers
\* str.upper() on the characters that occur in registrations, codes and signatures
UpperTable ==
  [c \in {"a", "b", "c", "d", "e", "f", "m", "x", "y", "z",
          "A", "B", "C", "D", "E", "F", "M", "X", "Y", "Z", "1", "2", "3", " "} |->
     CASE c = "a" -> "A" [] c = "b" -> "B" [] c = "c" -> "C" [] c = "d" -> "D"
       [] c = "e" -> "E" [] c = "f" -> "F" [] c = "m" -> "M" [] c = "x" -> "X"
       [] c = "y" -> "Y" [] c = "z" -> "Z" [] OTHER -> c]
UpperCh(c) == UpperTable[c]

\* str.lower() on the same characters
LowerTable ==
  [c \in DOMAIN UpperTable |->
     CASE c = "A" -> "a" [] c = "B" -> "b" [] c = "C" -> "c" [] c = "D" -> "d"
       [] c = "E" -> "e" [] c = "F" -> "f" [] c = "M" -> "m" [] c = "X" -> "x"
       [] c = "Y" -> "y" [] c = "Z" -> "z" [] OTHER -> c]
LowerCh(c) == LowerTable[c]

\* str.upper()
Upper(s) == [i \in 1..Len(s) |-> UpperCh(s[i])]
Lower(s) == [i \in 1..Len(s) |-> LowerCh(s[i])]

\* str.strip()
RECURSIVE Strip(_)
Strip(s) ==
  IF s = <<>> THEN s
  ELSE IF Head(s) = " " THEN Strip(Tail(s))
  ELSE IF s[Len(s)] = " " THEN Strip(SubSeq(s, 1, Len(s) - 1))
  ELSE s

Take(s, n) == SubSeq(s, 1, Min(n, Len(s)))

\* _b64url(hmac(secret, "<id>|<op>|<vr>")[:16]): the keyed hash is modelled
\* as an injective mixed-case encoding of the signed message.
IdLetters == <<"a", "b", "c", "d", "e", "f">>
OpLetter(op) == IF op = DefaultOperator THEN "x" ELSE IF op = "opb" THEN "y" ELSE "z"
Sig(id, op, vr) == <<IdLetters[id], OpLetter(op)>> \o vr

\* utils/qr.py pickup_qr_code; vehicle_reg = NULL stands for None
pickup_qr_code(id, op, vehicle_reg) ==
  LET vr == IF vehicle_reg = NULL THEN <<>> ELSE Upper(Strip(vehicle_reg))
  IN Upper(Take(Sig(id, op, vr), 6))

\* --------------------------------------------------------------- scoring
SeqIf(c, s) == IF c THEN s ELSE <<>>

\* a score without its final bounds
NoClamp(x) == x

\* score_vehicle: the score is kept within 0..100
Clamp(x) == Max(0, Min(10000, x))

\* a telemetry test that lets a vehicle without telemetry pass
TelemetryOptional(age, max_age) == age = NoNum \/ age <= max_age

\* score_vehicle: telemetry must be present and not older than max_age_min
TelemetryOk(age, max_age) == age # NoNum /\ age <= max_age

\* matchmaking score_vehicle: (score, reasons, eligible) of the vehicle row f
\* with status st under the constraints (max_km in tenths, min_batt,
\* max_age_min)
ScoreOf(f, st, max_km10, min_batt, max_age) ==
  LET haspos == f.lat # NoNum /\ f.lon # NoNum
      dist == IF haspos THEN f.dist10 ELSE NoNum
      eligible == /\ st = "ACTIVE"
                  /\ (haspos => dist <= max_km10)
                  /\ (f.battery # NoNum => f.battery >= min_batt)
                  /\ TelemetryOk(f.age, max_age)
      dpen == IF dist = NoNum THEN 3500
              ELSE Min(5500, (dist * 5500) \div Max(5, max_km10))
      bonus == IF f.battery = NoNum THEN -800
               ELSE Max(0, Min(1800, ((f.battery - min_batt) * 1800) \div Max(1, 100 - min_batt)))
      tpen == IF f.age = NoNum THEN 1800
              ELSE Min(1800, Max(0, (f.age * 1800) \div Max(1, max_age)))
      reasons ==
        SeqIf(st # "ACTIVE", <<"blocked:vehicle_status">>)
        \o (IF haspos THEN SeqIf(dist > max_km10, <<"blocked:distance">>)
                      ELSE <<"penalty:no_location">>)
        \o (IF f.battery # NoNum THEN SeqIf(f.battery < min_batt, <<"blocked:battery">>)
                                 ELSE <<"penalty:no_battery">>)
        \o (IF f.age # NoNum THEN SeqIf(f.age > max_age, <<"blocked:telemetry_stale">>)
                             ELSE <<"blocked:no_telemetry">>)
        \o SeqIf(dist # NoNum, <<"distance">>)
        \o SeqIf(f.battery # NoNum, <<"battery">>)
        \o SeqIf(f.age # NoNum, <<"telemetry_age">>)
  IN [score |-> Clamp(10000 - dpen + bonus - tpen),
      dist |-> dist, reasons |-> reasons, eligible |-> eligible]

\* score_vehicle of vehicle v of the registry
score_vehicle(v, st, max_km10, min_batt, max_age) ==
  ScoreOf(Fleet[v], st, max_km10, min_batt, max_age)

InboxRows(op, r) == {i \in 1..Len(inbox) : inbox[i].op = op /\ inbox[i].req = r}

\* matchmaking _operator_load: inbox rows of the operator's requests in state s
OperatorLoad(op, s) ==
  Cardinality({i \in 1..Len(inbox) :
                 /\ inbox[i].op = op
                 /\ inbox[i].state = s
                 /\ \E r \in 1..Len(reqs) : r = inbox[i].req /\ reqs[r].op = op})

\* recommend: load-adjusted score of an eligible vehicle
LoadPenaltyOf(inbox_new, inbox_contacted) == Min(1200, inbox_new * 160 + inbox_contacted * 60)
LoadPenalty(op) == LoadPenaltyOf(OperatorLoad(op, "NEW"), OperatorLoad(op, "CONTACTED"))
Score2(score, load_penalty) == Max(0, score - load_penalty)
RecScore(v) ==
  Score2(score_vehicle(v, vstatus[v], RecMaxKm10, RecMinBatt, RecMaxAge).score,
         LoadPenalty(Fleet[v].op))
RecCandidates ==
  {v \in Vehicles : score_vehicle(v, vstatus[v], RecMaxKm10, RecMinBatt, RecMaxAge).eligible}
\* sort key (-score, distance) over the list ordered by created_at desc
RecBefore(v, w) ==
  LET dv == IF Fleet[v].dist10 = NoNum THEN 1000000000 ELSE Fleet[v].dist10
      dw == IF Fleet[w].dist10 = NoNum THEN 1000000000 ELSE Fleet[w].dist10
  IN \/ RecScore(v) > RecScore(w)
     \/ RecScore(v) = RecScore(w) /\ dv < dw
     \/ RecScore(v) = RecScore(w) /\ dv = dw /\ Fleet[v].created > Fleet[w].created
\* recommend(...)["recommended"]: the vehicle id, or NULL
recommend ==
  IF RecCandidates = {} THEN NULL
  ELSE CHOOSE v \in RecCandidates : \A w \in RecCandidates \ {v} : RecBefore(v, w)
RecReasons(v) ==
  score_vehicle(v, vstatus[v], RecMaxKm10, RecMinBatt, RecMaxAge).reasons \o <<"op_load">>

\* ------------------------------------------------------- handler plumbing
Goto(p, l) == pc' = [pc EXCEPT ![p] = l]
Return(p, kind, v, t) ==
  /\ pc' = [pc EXCEPT ![p] = "done"]
  /\ result' = [result EXCEPT ![p] = [kind |-> kind, v |-> v, t |-> t]]
\* the handlers are interchangeable: a call goes to the first idle one
FirstIdle(p) == p = "p2" => pc["p1"] # "idle"
Begin(p, c) ==
  /\ pc[p] = "idle"
  /\ FirstIdle(p)
  /\ ncalls < MaxCalls
  /\ ncalls' = ncalls + 1
  /\ now' = now + 1
  /\ call' = [call EXCEPT ![p] = c]
Wrote(p) == wrote' = [wrote EXCEPT ![p] = TRUE]

\* ids a caller can name: those of the matched requests, of any operator
TargetIds == {r \in 1..Len(reqs) : reqs[r].status = "MATCHED"}
\* supply_requests row with this id and operator, as accept/verify/upsert look it up
ReqFound(op, r) == r \in 1..Len(reqs) /\ reqs[r].op = op

\* session close (get_db finally: db.close()) releases the row locks
Released(l, p) == [k \in DOMAIN l |-> IF l[k] = p THEN NULL ELSE l[k]]
ReleaseLocks(p) ==
  /\ rlock' = Released(rlock, p)
  /\ ilock' = Released(ilock, p)
  /\ vlock' = Released(vlock, p)

\* ------------------------------------------------------ commitment_policy
\* create_commitment: the row it inserts
NewCommitment(rider, op, lane, min_days, lock_mode) ==
  [rider |-> rider, op |-> op, lane |-> lane, lock_mode |-> lock_mode,
   status |-> "ACTIVE", starts_at |-> now, ends_at |-> now + min_days,
   created_at |-> now, cancelled_at |-> NoTime, cancel_reason |-> NULL]
\* create_commitment for the request r whose inbox state became ONBOARDED
create_commitment(r, rider, op, lane, min_days, lock_mode) ==
  /\ commitments' = Append(commitments, NewCommitment(rider, op, lane, min_days, lock_mode))
  /\ ncommit' = [ncommit EXCEPT ![r] = @ + 1]

\* ---------------------------------------------------------- create_request
\* the query of create_supply_request for a request in progress of the rider
ActiveRequestExists(rider) ==
  \E r \in 1..Len(reqs) :
    /\ reqs[r].rider = rider
    /\ reqs[r].pva = NoTime
    /\ reqs[r].status # "REJECTED"
    /\ LET rows == {i \in 1..Len(inbox) : inbox[i].req = r}
       IN rows = {} \/ \E i \in rows : inbox[i].state # "REJECTED"

BeginCreate(p, rider, lane, opid) ==
  /\ Begin(p, [NoCall EXCEPT !.name = "create_request", !.rider = rider,
                             !.lane = lane, !.op = opid])
  /\ IF ActiveRequestExists(rider)
       THEN Return(p, "Conflict", NULL, NoTime)
       ELSE Goto(p, "cr_insert") /\ UNCHANGED result
  /\ UNCHANGED <<db, locks, loc, wrote, hist>>

NewRequest(rider, lane) ==
  [rider |-> rider, lane |-> lane, op |-> NULL, mv |-> NULL, ms |-> NoScore,
   mr |-> NoReasons, pva |-> NoTime, pvb |-> NULL, status |-> "CREATED"]

\* the request is inserted and committed; without a chosen operator the
\* handler then reads the recommendation
CrInsert(p) ==
  /\ pc[p] = "cr_insert"
  /\ reqs' = Append(reqs, NewRequest(call[p].rider, call[p].lane))
  /\ LET top == IF call[p].op = NULL THEN recommend ELSE NULL
     IN loc' = [loc EXCEPT ![p].newreq = Len(reqs) + 1,
                           ![p].top = top,
                           ![p].topscore = IF top = NULL THEN NoScore ELSE RecScore(top),
                           ![p].topreasons = IF top = NULL THEN <<>> ELSE RecReasons(top)]
  /\ Wrote(p)
  /\ Goto(p, "cr_commit")
  /\ UNCHANGED <<inbox, commitments, vstatus, now, locks, call, result, ncalls, hist>>

CrCommit(p) ==
  /\ pc[p] = "cr_commit"
  /\ LET id == loc[p].newreq
         chosen_op == IF call[p].op # NULL THEN call[p].op
                      ELSE IF loc[p].top # NULL THEN Fleet[loc[p].top].op ELSE NULL
         operator == IF chosen_op = NULL THEN DefaultOperator ELSE chosen_op
         matched == IF call[p].op # NULL THEN reqs[id]
                    ELSE [reqs[id] EXCEPT !.mv = loc[p].top, !.ms = loc[p].topscore,
                                          !.mr = loc[p].topreasons]
     IN reqs' = [reqs EXCEPT ![id] = [matched EXCEPT !.op = operator, !.status = "MATCHED"]]
  /\ Wrote(p)
  /\ Return(p, "ok", NULL, NoTime)
  /\ UNCHANGED <<inbox, commitments, vstatus, now, locks, call, loc, ncalls, hist>>

\* --------------------------------------------------------- set_inbox_state
NewInboxRow(op, r, state, note, t) ==
  [op |-> op, req |-> r, state |-> state, note |-> note, updated_at |-> t]

\* upsert_inbox_state, the lookup of the existing row
BeginUpsert(p, op, r, state) ==
  /\ r \in TargetIds
  /\ Begin(p, [NoCall EXCEPT !.name = "set_inbox_state", !.op = op, !.r = r, !.state = state])
  /\ LET rows == InboxRows(op, r)
     IN IF Cardinality(rows) > 1
          THEN Return(p, "InternalError", NULL, NoTime) /\ UNCHANGED loc
          ELSE /\ loc' = [loc EXCEPT ![p].rows = rows,
                            ![p].prev = IF rows = {} THEN NULL
                                        ELSE inbox[CHOOSE i \in rows : TRUE].state,
                            ![p].prevnote = IF rows = {} THEN NULL
                                            ELSE inbox[CHOOSE i \in rows : TRUE].note]
               /\ Goto(p, "up_commit")
               /\ UNCHANGED result
  /\ UNCHANGED <<db, locks, wrote, hist>>

\* upsert_inbox_state, the update or insert and its commit
UpCommit(p) ==
  /\ pc[p] = "up_commit"
  /\ LET st == call[p].state
         r == call[p].r
     IN IF loc[p].rows # {}
          THEN LET i == CHOOSE i \in loc[p].rows : TRUE
                   new == IF st # loc[p].prev THEN st ELSE inbox[i].state
               IN /\ ilock[i] = NULL
                  \* the UPDATE sets the columns whose value the handler changed
                  /\ inbox' = [inbox EXCEPT
                                 ![i].state = IF st # loc[p].prev THEN st ELSE @,
                                 ![i].note = IF call[p].note # loc[p].prevnote
                                               THEN call[p].note ELSE @,
                                 ![i].updated_at = now]
                  /\ ntrans' = [ntrans EXCEPT ![r] =
                                 IF inbox[i].state # "ONBOARDED" /\ new = "ONBOARDED"
                                   THEN @ + 1 ELSE @]
                  /\ IF loc[p].prev # st /\ st = "ONBOARDED"
                       THEN Goto(p, "up_commitment") /\ UNCHANGED result
                       ELSE Return(p, "ok", NULL, NoTime)
          ELSE /\ inbox' = Append(inbox, NewInboxRow(call[p].op, r, st, call[p].note, now))
               /\ ntrans' = [ntrans EXCEPT ![r] = IF st = "ONBOARDED" THEN @ + 1 ELSE @]
               /\ IF st = "ONBOARDED"
                    THEN Goto(p, "up_commitment") /\ UNCHANGED result
                    ELSE Return(p, "ok", NULL, NoTime)
  /\ Wrote(p)
  /\ UNCHANGED <<reqs, commitments, vstatus, now, locks, call, loc, ncalls, ncommit, rets, probe>>

\* upsert_inbox_state, the commitment after a change into ONBOARDED
UpCommitment(p) ==
  /\ pc[p] = "up_commitment"
  /\ LET r == call[p].r
     IN IF ReqFound(call[p].op, r)
          THEN create_commitment(r, reqs[r].rider, reqs[r].op, reqs[r].lane,
                                 CommitDays, "HIDE_ALL_DEMAND")
          ELSE UNCHANGED <<commitments, ncommit>>
  /\ Return(p, "ok", NULL, NoTime)
  /\ UNCHANGED <<reqs, inbox, vstatus, now, locks, call, loc, wrote, ncalls, ntrans, rets, probe>>

\* ------------------------------------------------------------------ accept
BeginAccept(p, op, r) ==
  /\ r \in TargetIds
  /\ Begin(p, [NoCall EXCEPT !.name = "accept", !.op = op, !.r = r, !.t0 = now])
  /\ Goto(p, "ac_lock")
  /\ UNCHANGED <<db, locks, loc, result, wrote, hist>>

\* a SELECT without FOR UPDATE: the row is read while another handler holds it
ReadRequestUnlocked(p, r) ==
  /\ rlock' = [rlock EXCEPT ![r] = IF @ = NULL THEN p ELSE @]

\* the request row is locked by this handler
LockRequest(p, r) ==
  /\ rlock[r] = NULL
  /\ rlock' = [rlock EXCEPT ![r] = p]

\* a handler without the short-circuit: every accept assigns again
NeverOnboarded(st) == FALSE

\* prev_state == OperatorInboxState.ONBOARDED
AlreadyOnboarded(st) == st = "ONBOARDED"

\* SELECT supply_requests ... FOR UPDATE, then SELECT operator_request_inbox
\* ... FOR UPDATE and the ONBOARDED short-circuit.  The holder of an inbox
\* row's lock holds the request's lock too, so the two waits are one.
AcLock(p) ==
  /\ pc[p] = "ac_lock"
  /\ IF ~ReqFound(call[p].op, call[p].r)
       THEN /\ Return(p, "NotFound", NULL, NoTime)
            /\ UNCHANGED <<rlock, ilock, loc>>
       ELSE LET rows == InboxRows(call[p].op, call[p].r)
            IN /\ LockRequest(p, call[p].r)
               /\ \A i \in rows : ilock[i] \in {NULL, p}
               /\ ilock' = [i \in InboxIds |-> IF i \in rows THEN p ELSE ilock[i]]
               /\ IF Cardinality(rows) > 1
                    THEN Return(p, "InternalError", NULL, NoTime) /\ UNCHANGED loc
                    ELSE LET st == IF rows = {} THEN NULL
                                   ELSE inbox[CHOOSE i \in rows : TRUE].state
                         IN /\ loc' = [loc EXCEPT ![p].rows = rows, ![p].prev = st]
                            /\ IF AlreadyOnboarded(st)
                                 THEN Return(p, "ok", reqs[call[p].r].mv, NoTime)
                                 ELSE Goto(p, "ac_blocked") /\ UNCHANGED result
  /\ UNCHANGED <<db, now, vlock, call, wrote, ncalls, hist>>

\* vehicles matched by ONBOARDED requests of the operator
BlockedVehicles(op) ==
  {reqs[x].mv : x \in {y \in 1..Len(reqs) :
                         /\ reqs[y].mv # NULL
                         /\ \E i \in 1..Len(inbox) : /\ inbox[i].req = y
                                                     /\ inbox[i].op = op
                                                     /\ inbox[i].state = "ONBOARDED"}}

AcBlocked(p) ==
  /\ pc[p] = "ac_blocked"
  /\ loc' = [loc EXCEPT ![p].blocked = BlockedVehicles(call[p].op)]
  /\ Goto(p, "ac_pref")
  /\ UNCHANGED <<db, now, locks, call, result, wrote, ncalls, hist>>

\* the bounding box around the lane anchor
InBox(v) ==
  /\ Fleet[v].lat # NoNum
  /\ Fleet[v].lon # NoNum
  /\ Fleet[v].lat >= LaneLat - BoxLat
  /\ Fleet[v].lat <= LaneLat + BoxLat
  /\ Fleet[v].lon >= LaneLon - BoxLon
  /\ Fleet[v].lon <= LaneLon + BoxLon

\* ORDER BY battery_pct DESC NULLS LAST, last_telemetry_at DESC NULLS LAST, created_at ASC
VehicleBefore(v, w) ==
  LET bv == Fleet[v].battery
      bw == Fleet[w].battery
      av == Fleet[v].age
      aw == Fleet[w].age
      battBefore == bv # NoNum /\ (bw = NoNum \/ bv > bw)
      ageBefore == av # NoNum /\ (aw = NoNum \/ av < aw)
  IN \/ battBefore
     \/ bv = bw /\ ageBefore
     \/ bv = bw /\ av = aw /\ Fleet[v].created < Fleet[w].created

First(cands) ==
  IF cands = {} THEN NULL
  ELSE CHOOSE v \in cands : \A w \in cands \ {v} : VehicleBefore(v, w)

\* WITH FOR UPDATE SKIP LOCKED: rows another transaction holds are passed over
Lockable(p, v) == vlock[v] \in {NULL, p}

\* an accept that ignores the recommendation and takes the best vehicle by order
PreferredBestByOrder(p, op, mv, blocked) ==
  First({v \in Vehicles : Fleet[v].op = op /\ vstatus[v] = "ACTIVE" /\ v \notin blocked /\ Lockable(p, v)})

\* the previously recommended vehicle, if still available
Preferred(p, op, mv, blocked) ==
  IF /\ mv # NULL
     /\ mv \notin blocked
     /\ Fleet[mv].op = op
     /\ vstatus[mv] = "ACTIVE"
     /\ InBox(mv)
     /\ Lockable(p, mv)
    THEN mv ELSE NULL

Choose(p, v, next) ==
  IF v # NULL
    THEN /\ loc' = [loc EXCEPT ![p].chosen = v]
         /\ vlock' = [vlock EXCEPT ![v] = p]
         /\ Goto(p, "ac_commit")
    ELSE /\ Goto(p, next)
         /\ UNCHANGED <<loc, vlock>>

AcPref(p) ==
  /\ pc[p] = "ac_pref"
  /\ Choose(p, Preferred(p, call[p].op, reqs[call[p].r].mv, loc[p].blocked), "ac_box")
  /\ UNCHANGED <<db, now, rlock, ilock, call, result, wrote, ncalls, hist>>

\* the ordered query without its bounding box
BoxCandidatesAnywhere(p, op, blocked) ==
  {v \in Vehicles : /\ Fleet[v].op = op
                    /\ vstatus[v] = "ACTIVE"
                    /\ v \notin blocked
                    /\ Lockable(p, v)}

BoxCandidates(p, op, blocked) ==
  {v \in Vehicles : /\ Fleet[v].op = op
                    /\ vstatus[v] = "ACTIVE"
                    /\ v \notin blocked
                    /\ InBox(v)
                    /\ Lockable(p, v)}

AcBox(p) ==
  /\ pc[p] = "ac_box"
  /\ Choose(p, First(BoxCandidates(p, call[p].op, loc[p].blocked)), "ac_wide")
  /\ UNCHANGED <<db, now, rlock, ilock, call, result, wrote, ncalls, hist>>

\* the fallback query without its status filter
WideCandidatesAnyStatus(p, op, blocked) ==
  {v \in Vehicles : /\ Fleet[v].op = op
                    /\ v \notin blocked
                    /\ Lockable(p, v)}

WideCandidates(p, op, blocked) ==
  {v \in Vehicles : /\ Fleet[v].op = op
                    /\ vstatus[v] = "ACTIVE"
                    /\ v \notin blocked
                    /\ Lockable(p, v)}

AcWide(p) ==
  /\ pc[p] = "ac_wide"
  /\ LET v == First(WideCandidates(p, call[p].op, loc[p].blocked))
     IN IF v = NULL
          THEN /\ Return(p, "Conflict", NULL, NoTime)
               /\ UNCHANGED <<loc, vlock>>
          ELSE /\ Choose(p, v, "ac_wide")
               /\ UNCHANGED result
  /\ UNCHANGED <<db, now, rlock, ilock, call, wrote, ncalls, hist>>

AutoNote == "Accepted. Auto-assigned vehicle"

\* an accept whose commit carries the request row only
AcCommitRequestOnly(p) ==
  /\ pc[p] = "ac_commit"
  /\ LET v == loc[p].chosen
         sc == score_vehicle(v, vstatus[v], AccMaxKm10, AccMinBatt, AccMaxAge)
     IN reqs' = [reqs EXCEPT ![call[p].r].mv = v, ![call[p].r].ms = sc.score,
                             ![call[p].r].mr = sc.reasons]
  /\ ReleaseLocks(p)
  /\ Wrote(p)
  /\ Goto(p, "ac_commitment")
  /\ UNCHANGED <<inbox, commitments, vstatus, now, call, loc, result, ncalls, hist>>

\* the rows accept writes, and its commit
AcCommit(p) ==
  /\ pc[p] = "ac_commit"
  /\ LET r == call[p].r
         v == loc[p].chosen
         sc == score_vehicle(v, vstatus[v], AccMaxKm10, AccMinBatt, AccMaxAge)
     IN /\ reqs' = [reqs EXCEPT ![r].mv = v, ![r].ms = sc.score, ![r].mr = sc.reasons]
        /\ IF loc[p].rows # {}
             THEN LET i == CHOOSE i \in loc[p].rows : TRUE
                  IN inbox' = [inbox EXCEPT ![i].state = "ONBOARDED", ![i].note = AutoNote,
                                            ![i].updated_at = call[p].t0]
             ELSE inbox' = Append(inbox, NewInboxRow(call[p].op, r, "ONBOARDED", AutoNote,
                                                     call[p].t0))
        /\ ntrans' = [ntrans EXCEPT ![r] = @ + 1]
  /\ ReleaseLocks(p)
  /\ Wrote(p)
  /\ Goto(p, "ac_commitment")
  /\ UNCHANGED <<commitments, vstatus, now, call, loc, result, ncalls, ncommit, rets, probe>>

\* the commitment accept creates when the previous state was not ONBOARDED
AcCommitment(p) ==
  /\ pc[p] = "ac_commitment"
  /\ LET r == call[p].r
     IN IF loc[p].prev # "ONBOARDED"
          THEN create_commitment(r, reqs[r].rider, call[p].op, reqs[r].lane,
                                 CommitDays, "HIDE_ALL_DEMAND")
          ELSE UNCHANGED <<commitments, ncommit>>
  /\ Return(p, "ok", loc[p].chosen, NoTime)
  /\ UNCHANGED <<reqs, inbox, vstatus, now, locks, call, loc, wrote, ncalls, ntrans, rets, probe>>

\* ----------------------------------------------------------- verify_pickup
PickupNote == "Pickup verified (QR)."
WrongCode == <<"Z", "Z">>

\* an expected code computed without the vehicle's registration
ExpectedCodeNoVehicle(r) == pickup_qr_code(r, reqs[r].op, NULL)

\* the short code verify_pickup_qr expects for request r
ExpectedCode(r) ==
  LET mv == reqs[r].mv
  IN pickup_qr_code(r, reqs[r].op, IF mv = NULL THEN NULL ELSE Fleet[mv].reg)

\* rider_supply_status: the stage shown to the rider of request r
rider_stage(r) ==
  LET rows == IF reqs[r].op = NULL THEN {} ELSE InboxRows(reqs[r].op, r)
      inbox_state == IF rows = {} THEN "NEW" ELSE inbox[CHOOSE i \in rows : TRUE].state
  IN IF Cardinality(rows) > 1 THEN "error"
     ELSE IF reqs[r].status = "REJECTED" \/ inbox_state = "REJECTED" THEN "rejected"
     ELSE IF reqs[r].pva # NoTime THEN "completed"
     ELSE IF inbox_state = "ONBOARDED" THEN "approved"
     ELSE IF inbox_state = "CONTACTED" THEN "verification"
     ELSE "sent"

\* rider_supply_status: the registration shown, of a vehicle of the request's operator
rider_vehicle_reg(r) ==
  LET mv == reqs[r].mv
  IN IF mv # NULL /\ Fleet[mv].op = reqs[r].op THEN Fleet[mv].reg ELSE NULL

NoCode == <<>>

\* rider_supply_status: the short code issued to the rider once approved
rider_pickup_code(r) ==
  IF rider_stage(r) = "approved"
    THEN pickup_qr_code(r, reqs[r].op, rider_vehicle_reg(r))
    ELSE NoCode

\* codes a user may type for request r: the code issued to the rider, the
\* expected code, the same code in lower case with blanks around it, and a
\* code of another request
EnteredCodes(r) ==
  IF r \in 1..Len(reqs)
    THEN ({rider_pickup_code(r)} \ {NoCode})
         \cup {ExpectedCode(r), <<" ">> \o Lower(ExpectedCode(r)) \o <<" ">>, WrongCode}
    ELSE {WrongCode}

BeginVerify(p, op, r, user) ==
  /\ r \in TargetIds
  /\ Begin(p, [NoCall EXCEPT !.name = "verify_pickup", !.op = op, !.r = r,
                             !.user = user, !.t0 = now])
  /\ Goto(p, "vp_lock")
  /\ UNCHANGED <<db, locks, loc, result, wrote, hist>>

\* SELECT supply_requests ... FOR UPDATE
VpLock(p) ==
  /\ pc[p] = "vp_lock"
  /\ IF ~ReqFound(call[p].op, call[p].r)
       THEN Return(p, "NotFound", NULL, NoTime) /\ UNCHANGED rlock
       ELSE /\ LockRequest(p, call[p].r)
            /\ Goto(p, "vp_check")
            /\ UNCHANGED result
  /\ UNCHANGED <<db, now, ilock, vlock, call, loc, wrote, ncalls, hist>>

\* a comparison that lets every code through
CodeAlwaysMatches(code, r) == TRUE

\* pickup_code.strip().upper() compared with the expected code
CodeMatches(code, r) == Upper(Strip(code)) = ExpectedCode(r)

\* a check that only refuses a pair without an inbox row
NoInboxRow(rows) == rows = {}

\* not st or st.state != OperatorInboxState.ONBOARDED
NotApproved(rows) ==
  rows = {} \/ inbox[CHOOSE i \in rows : TRUE].state # "ONBOARDED"

\* the checks of verify_pickup_qr up to the comparison of the code; the
\* code the caller sent is drawn here, where it is first read
VpCheck(p, code) ==
  /\ pc[p] = "vp_check"
  /\ call' = [call EXCEPT ![p].code = code]
  /\ LET r == call[p].r
         rows == InboxRows(call[p].op, r)
     IN IF Cardinality(rows) > 1
          THEN Return(p, "InternalError", NULL, NoTime) /\ UNCHANGED loc
        ELSE IF NotApproved(rows)
          THEN Return(p, "Conflict", NULL, NoTime) /\ UNCHANGED loc
        ELSE IF reqs[r].pva # NoTime
          THEN Return(p, "ok", NULL, reqs[r].pva) /\ UNCHANGED loc
        ELSE IF ~CodeMatches(code, r)
          THEN Return(p, "Validation", NULL, NoTime) /\ UNCHANGED loc
        ELSE /\ loc' = [loc EXCEPT ![p].rows = rows]
             /\ Goto(p, "vp_flush")
             /\ UNCHANGED result
  /\ UNCHANGED <<db, now, locks, wrote, ncalls, hist>>

\* the UPDATEs flushed before the rider is read: they take the inbox row's lock
VpFlush(p) ==
  /\ pc[p] = "vp_flush"
  /\ LET i == CHOOSE i \in loc[p].rows : TRUE
     IN /\ ilock[i] \in {NULL, p}
        /\ ilock' = [ilock EXCEPT ![i] = p]
  /\ Goto(p, "vp_commit")
  /\ UNCHANGED <<db, now, rlock, vlock, call, loc, result, wrote, ncalls, hist>>

VpCommit(p) ==
  /\ pc[p] = "vp_commit"
  /\ LET r == call[p].r
         i == CHOOSE i \in loc[p].rows : TRUE
     IN /\ reqs' = [reqs EXCEPT ![r].pva = call[p].t0, ![r].pvb = call[p].user]
        /\ inbox' = [inbox EXCEPT ![i].note = PickupNote, ![i].updated_at = call[p].t0]
  /\ ReleaseLocks(p)
  /\ Wrote(p)
  /\ Return(p, "ok", NULL, call[p].t0)
  /\ UNCHANGED <<commitments, vstatus, now, call, loc, ncalls, hist>>

\* ------------------------------------------------------ create_maintenance
\* a maintenance ticket whose UPDATE does not wait for the vehicle's row lock
MaintenanceWithoutWait(p, op, v) ==
  /\ Begin(p, [NoCall EXCEPT !.name = "create_maintenance", !.op = op, !.v = v])
  /\ IF Fleet[v].op # op
       THEN /\ Return(p, "NotFound", NULL, NoTime)
            /\ UNCHANGED <<vstatus, wrote>>
       ELSE /\ vstatus' = [vstatus EXCEPT ![v] = "IN_MAINTENANCE"]
            /\ Wrote(p)
            /\ Return(p, "ok", NULL, NoTime)
  /\ UNCHANGED <<reqs, inbox, commitments, locks, loc, hist>>

\* the vehicle goes under maintenance; the UPDATE waits for the row's lock
Maintenance(p, op, v) ==
  /\ Begin(p, [NoCall EXCEPT !.name = "create_maintenance", !.op = op, !.v = v])
  /\ IF Fleet[v].op # op
       THEN /\ Return(p, "NotFound", NULL, NoTime)
            /\ UNCHANGED <<vstatus, wrote>>
       ELSE /\ vlock[v] = NULL
            /\ vstatus' = [vstatus EXCEPT ![v] = "IN_MAINTENANCE"]
            /\ Wrote(p)
            /\ Return(p, "ok", NULL, NoTime)
  /\ UNCHANGED <<reqs, inbox, commitments, locks, loc, hist>>

\* ----------------------------------------------------------------- return
\* The handler has answered and get_db closes the session.  Answer and close
\* are one step of the handler, split here only to show the answer: nothing
\* else runs in between (Running).
Close(p) ==
  /\ pc[p] = "done"
  /\ ReleaseLocks(p)
  /\ pc' = [pc EXCEPT ![p] = "idle"]
  /\ call' = [call EXCEPT ![p] = NoCall]
  /\ loc' = [loc EXCEPT ![p] = NoLoc]
  /\ result' = [result EXCEPT ![p] = NoResult]
  /\ wrote' = [wrote EXCEPT ![p] = FALSE]
  /\ UNCHANGED <<db, now, ncalls>>

Finish(p) == Close(p) /\ UNCHANGED hist

Running == \A q \in Procs : pc[q] # "done"

\* the operator whose users call the inbox operations
Callers == {DefaultOperator}

Next ==
  \/ Running /\ \E p \in Procs, rider \in Riders, lane \in Lanes, opid \in {NULL, "opb"} :
       BeginCreate(p, rider, lane, opid)
  \/ Running /\ \E p \in Procs : CrInsert(p)
  \/ Running /\ \E p \in Procs : CrCommit(p)
  \/ Running /\ \E p \in Procs, op \in Callers, r \in ReqIds, state \in InboxStates :
       BeginUpsert(p, op, r, state)
  \/ Running /\ \E p \in Procs : UpCommit(p)
  \/ Running /\ \E p \in Procs : UpCommitment(p)
  \/ Running /\ \E p \in Procs, op \in Callers, r \in ReqIds : BeginAccept(p, op, r)
  \/ Running /\ \E p \in Procs : AcLock(p)
  \/ Running /\ \E p \in Procs : AcBlocked(p)
  \/ Running /\ \E p \in Procs : AcPref(p)
  \/ Running /\ \E p \in Procs : AcBox(p)
  \/ Running /\ \E p \in Procs : AcWide(p)
  \/ Running /\ \E p \in Procs : AcCommit(p)
  \/ Running /\ \E p \in Procs : AcCommitment(p)
  \/ Running /\ \E p \in Procs, op \in Callers, r \in ReqIds, user \in Users :
       BeginVerify(p, op, r, user)
  \/ Running /\ \E p \in Procs : VpLock(p)
  \/ Running /\ \E p \in Procs : \E code \in EnteredCodes(call[p].r) : VpCheck(p, code)
  \/ Running /\ \E p \in Procs : VpFlush(p)
  \/ Running /\ \E p \in Procs : VpCommit(p)
  \/ Running /\ \E p \in Procs, op \in Callers, v \in Vehicles : Maintenance(p, op, v)
  \/ \E p \in Procs : Finish(p)

Spec == Init /\ [][Next]_vars

\* ------------------------------------------- accept calls on one request
\* Concurrent accepts of one request: a matched request of the default
\* operator that is not ONBOARDED, with at least one vehicle of the operator
\* ACTIVE, and handlers that only call accept on it.
SameReq == 1

MatchedRequest(mv) ==
  LET sc == score_vehicle(mv, "ACTIVE", AccMaxKm10, AccMinBatt, AccMaxAge)
  IN [rider |-> "ra", lane |-> CHOOSE l \in Lanes : TRUE, op |-> DefaultOperator,
      mv |-> mv, ms |-> IF mv = NULL THEN NoScore ELSE sc.score,
      mr |-> IF mv = NULL THEN <<>> ELSE sc.reasons,
      pva |-> NoTime, pvb |-> NULL, status |-> "MATCHED"]

InitSame ==
  /\ \E mv \in {NULL, "v1", "v2"} : reqs = <<MatchedRequest(mv)>>
  /\ \E st \in {NULL, "NEW", "CONTACTED", "REJECTED"} :
       inbox = IF st = NULL THEN <<>>
               ELSE <<NewInboxRow(DefaultOperator, SameReq, st, NULL, 0)>>
  /\ commitments = <<>>
  /\ vstatus \in {f \in [Vehicles -> {"ACTIVE", "IN_MAINTENANCE"}] :
                     \E v \in Vehicles : Fleet[v].op = DefaultOperator /\ f[v] = "ACTIVE"}
  /\ now = 1
  /\ rlock = [r \in ReqIds |-> NULL]
  /\ ilock = [i \in InboxIds |-> NULL]
  /\ vlock = [v \in Vehicles |-> NULL]
  /\ pc = [p \in Procs |-> "idle"]
  /\ call = [p \in Procs |-> NoCall]
  /\ loc = [p \in Procs |-> NoLoc]
  /\ result = [p \in Procs |-> NoResult]
  /\ wrote = [p \in Procs |-> FALSE]
  /\ ncalls = 0
  /\ ntrans = [r \in ReqIds |-> 0]
  /\ ncommit = [r \in ReqIds |-> 0]
  /\ rets = {}
  /\ probe = NoProbe

\* what handler p answers
Answer(p) == [kind |-> result[p].kind, v |-> result[p].v]

FinishSame(p) ==
  /\ Close(p)
  /\ rets' = rets \cup {Answer(p)}
  /\ UNCHANGED <<ntrans, ncommit, probe>>

NextSame ==
  \/ Running /\ \E p \in Procs : BeginAccept(p, DefaultOperator, SameReq)
  \/ Running /\ \E p \in Procs : AcLock(p)
  \/ Running /\ \E p \in Procs : AcBlocked(p)
  \/ Running /\ \E p \in Procs : AcPref(p)
  \/ Running /\ \E p \in Procs : AcBox(p)
  \/ Running /\ \E p \in Procs : AcWide(p)
  \/ Running /\ \E p \in Procs : AcCommit(p)
  \/ Running /\ \E p \in Procs : AcCommitment(p)
  \/ \E p \in Procs : FinishSame(p)

SpecSame == InitSame /\ [][NextSame]_vars

\* ---------------------------------------- pickup of an accepted request
\* A request of the default operator that accept has moved to ONBOARDED with
\* one of the operator's vehicles, and handlers that verify its pickup or set
\* its inbox state.
InitPickup ==
  /\ now = 1
  /\ \E mv \in {"v1", "v2"} : reqs = <<MatchedRequest(mv)>>
  /\ inbox = <<NewInboxRow(DefaultOperator, SameReq, "ONBOARDED", AutoNote, 0)>>
  /\ commitments = <<NewCommitment("ra", DefaultOperator, CHOOSE l \in Lanes : TRUE,
                                   CommitDays, "HIDE_ALL_DEMAND")>>
  /\ vstatus = [v \in Vehicles |-> "ACTIVE"]
  /\ rlock = [r \in ReqIds |-> NULL]
  /\ ilock = [i \in InboxIds |-> NULL]
  /\ vlock = [v \in Vehicles |-> NULL]
  /\ pc = [p \in Procs |-> "idle"]
  /\ call = [p \in Procs |-> NoCall]
  /\ loc = [p \in Procs |-> NoLoc]
  /\ result = [p \in Procs |-> NoResult]
  /\ wrote = [p \in Procs |-> FALSE]
  /\ ncalls = 0
  /\ ntrans = [r \in ReqIds |-> IF r = SameReq THEN 1 ELSE 0]
  /\ ncommit = [r \in ReqIds |-> IF r = SameReq THEN 1 ELSE 0]
  /\ rets = {}
  /\ probe = NoProbe

NextPickup ==
  \/ Running /\ \E p \in Procs, user \in Users :
       BeginVerify(p, DefaultOperator, SameReq, user)
  \/ Running /\ \E p \in Procs : VpLock(p)
  \/ Running /\ \E p \in Procs : \E code \in EnteredCodes(call[p].r) : VpCheck(p, code)
  \/ Running /\ \E p \in Procs : VpFlush(p)
  \/ Running /\ \E p \in Procs : VpCommit(p)
  \/ Running /\ \E p \in Procs, state \in InboxStates :
       BeginUpsert(p, DefaultOperator, SameReq, state)
  \/ Running /\ \E p \in Procs : UpCommit(p)
  \/ Running /\ \E p \in Procs : UpCommitment(p)
  \/ \E p \in Procs : Finish(p)

SpecPickup == InitPickup /\ [][NextPickup]_vars

\* ------------------------------------------------------ fair scheduling
\* A handler that can take its next step takes it: the server runs every
\* request it has started, and a lock request is granted once the row is free.
Step(p) ==
  \/ /\ Running
     /\ \/ CrInsert(p) \/ CrCommit(p)
        \/ UpCommit(p) \/ UpCommitment(p)
        \/ AcLock(p) \/ AcBlocked(p) \/ AcPref(p) \/ AcBox(p) \/ AcWide(p)
        \/ AcCommit(p) \/ AcCommitment(p)
        \/ VpLock(p) \/ (\E code \in EnteredCodes(call[p].r) : VpCheck(p, code))
        \/ VpFlush(p) \/ VpCommit(p)
  \/ Finish(p)

\* two requests of different riders, matched by create_request to vehicles of
\* the default operator and not yet in the inbox
InitLive ==
  /\ \E mv \in {"v1", "v2"} :
       reqs = <<MatchedRequest("v1"), [MatchedRequest(mv) EXCEPT !.rider = "rb"]>>
  /\ inbox = <<>>
  /\ commitments = <<>>
  /\ vstatus = [v \in Vehicles |-> "ACTIVE"]
  /\ now = 1
  /\ rlock = [r \in ReqIds |-> NULL]
  /\ ilock = [i \in InboxIds |-> NULL]
  /\ vlock = [v \in Vehicles |-> NULL]
  /\ pc = [p \in Procs |-> "idle"]
  /\ call = [p \in Procs |-> NoCall]
  /\ loc = [p \in Procs |-> NoLoc]
  /\ result = [p \in Procs |-> NoResult]
  /\ wrote = [p \in Procs |-> FALSE]
  /\ ncalls = 0
  /\ ntrans = [r \in ReqIds |-> 0]
  /\ ncommit = [r \in ReqIds |-> 0]
  /\ rets = {}
  /\ probe = NoProbe

\* accept, verify_pickup and set_inbox_state calls on them
NextLive ==
  \/ Running /\ \E p \in Procs, r \in 1..2 : BeginAccept(p, DefaultOperator, r)
  \/ Running /\ \E p \in Procs : AcLock(p)
  \/ Running /\ \E p \in Procs : AcBlocked(p)
  \/ Running /\ \E p \in Procs : AcPref(p)
  \/ Running /\ \E p \in Procs : AcBox(p)
  \/ Running /\ \E p \in Procs : AcWide(p)
  \/ Running /\ \E p \in Procs : AcCommit(p)
  \/ Running /\ \E p \in Procs : AcCommitment(p)
  \/ Running /\ \E p \in Procs, r \in 1..2, user \in Users :
       BeginVerify(p, DefaultOperator, r, user)
  \/ Running /\ \E p \in Procs : VpLock(p)
  \/ Running /\ \E p \in Procs : \E code \in EnteredCodes(call[p].r) : VpCheck(p, code)
  \/ Running /\ \E p \in Procs : VpFlush(p)
  \/ Running /\ \E p \in Procs : VpCommit(p)
  \/ Running /\ \E p \in Procs, r \in 1..2, state \in {"CONTACTED", "ONBOARDED"} :
       BeginUpsert(p, DefaultOperator, r, state)
  \/ Running /\ \E p \in Procs : UpCommit(p)
  \/ Running /\ \E p \in Procs : UpCommitment(p)
  \/ \E p \in Procs : Finish(p)

SpecLive == InitLive /\ [][NextLive]_vars /\ \A p \in Procs : WF_vars(Step(p))

\* ------------------------------------------- commitment policy routes
LockModes == {"RESTRICT_TO_LANE", "HIDE_ALL_DEMAND"}
\* min_days a rider may ask for (CommitmentCreateIn: 1..30)
PolicyDays == {1, 3}
Actions == {"VIEW_DEMAND", "VIEW_PROFILE"}

\* Commitment.is_active_at
is_active_at(c, t) ==
  IF c.status # "ACTIVE" THEN FALSE
  ELSE c.starts_at <= t /\ t < c.ends_at

NoCommitment == 0

\* get_active_commitment: the ids it may return for the rider at time t
\* (NoCommitment for None); rows of equal created_at come in any order
get_active_commitment(rider, t) ==
  LET rows == {i \in 1..Len(commitments) :
                 commitments[i].rider = rider /\ commitments[i].status = "ACTIVE"}
      first == {i \in rows : \A j \in rows : commitments[j].created_at <= commitments[i].created_at}
  IN IF rows = {} THEN {NoCommitment}
     ELSE {IF is_active_at(commitments[i], t) THEN i ELSE NoCommitment : i \in first}

PolicyDecision(allowed, reason, unlock_at, allowed_lane_id) ==
  [allowed |-> allowed, reason |-> reason, unlock_at |-> unlock_at,
   allowed_lane_id |-> allowed_lane_id]

\* check_access, given the commitment get_active_commitment returned
check_access(active, action) ==
  IF active = NoCommitment THEN PolicyDecision(TRUE, NULL, NoTime, NULL)
  ELSE IF action = "VIEW_DEMAND"
    THEN IF commitments[active].lock_mode = "HIDE_ALL_DEMAND"
           THEN PolicyDecision(FALSE, "COMMITMENT_LOCKED", commitments[active].ends_at, NULL)
           ELSE PolicyDecision(TRUE, "COMMITMENT_RESTRICTED_TO_LANE",
                               commitments[active].ends_at, commitments[active].lane)
  ELSE PolicyDecision(TRUE, NULL, NoTime, NULL)

\* POST /commitments
BeginPolicyCreate(p, rider, op, lane, min_days, lock_mode) ==
  /\ Begin(p, [NoCall EXCEPT !.name = "create_commitment", !.rider = rider, !.op = op,
                             !.lane = lane, !.state = lock_mode, !.r = min_days,
                             !.t0 = now + 1])
  /\ Goto(p, "pc_insert")
  /\ UNCHANGED <<db, locks, loc, result, wrote, hist>>

\* create_commitment, stamped with the time of the call
PolicyInsert(p) ==
  /\ pc[p] = "pc_insert"
  /\ commitments' = Append(commitments,
                           [NewCommitment(call[p].rider, call[p].op, call[p].lane,
                                          call[p].r, call[p].state)
                              EXCEPT !.starts_at = call[p].t0,
                                     !.ends_at = call[p].t0 + call[p].r,
                                     !.created_at = call[p].t0])
  /\ Wrote(p)
  /\ Return(p, "ok", NULL, NoTime)
  /\ UNCHANGED <<reqs, inbox, vstatus, now, locks, call, loc, ncalls, hist>>

\* GET /commitments/active
BeginActive(p, rider) ==
  /\ Begin(p, [NoCall EXCEPT !.name = "get_active", !.rider = rider])
  /\ Goto(p, "ga_read")
  /\ UNCHANGED <<db, locks, loc, result, wrote, hist>>

GetActive(p) ==
  /\ pc[p] = "ga_read"
  /\ \E c \in get_active_commitment(call[p].rider, now) :
       probe' = [name |-> "get_active", rider |-> call[p].rider, t |-> now, cid |-> c]
  /\ Return(p, "ok", NULL, NoTime)
  /\ UNCHANGED <<db, now, locks, call, loc, wrote, ncalls, ntrans, ncommit, rets>>

\* demand discovery: check_access(rider, action)
BeginAccess(p, rider, action) ==
  /\ Begin(p, [NoCall EXCEPT !.name = "check_access", !.rider = rider, !.action = action])
  /\ Goto(p, "ca_read")
  /\ UNCHANGED <<db, locks, loc, result, wrote, hist>>

CheckAccess(p) ==
  /\ pc[p] = "ca_read"
  /\ \E c \in get_active_commitment(call[p].rider, now) :
       probe' = [name |-> "check_access", rider |-> call[p].rider,
                 action |-> call[p].action, t |-> now,
                 decision |-> check_access(c, call[p].action)]
  /\ Return(p, "ok", NULL, NoTime)
  /\ UNCHANGED <<db, now, locks, call, loc, wrote, ncalls, ntrans, ncommit, rets>>

\* POST /commitments/{id}/cancel
BeginCancel(p, cid) ==
  /\ Begin(p, [NoCall EXCEPT !.name = "cancel", !.cid = cid, !.t0 = now + 1])
  /\ Goto(p, "cc_read")
  /\ UNCHANGED <<db, locks, loc, result, wrote, hist>>

\* cancel_commitment_admin: db.get and the two early exits
CancelRead(p) ==
  /\ pc[p] = "cc_read"
  /\ IF call[p].cid \notin 1..Len(commitments) THEN Return(p, "NotFound", NULL, NoTime)
     ELSE IF commitments[call[p].cid].status # "ACTIVE"
       THEN Return(p, "ok", commitments[call[p].cid].status, NoTime)
     ELSE Goto(p, "cc_commit") /\ UNCHANGED result
  /\ UNCHANGED <<db, now, locks, call, loc, wrote, ncalls, hist>>

\* cancel_commitment_admin: the UPDATE of the row it read, and the answer
CancelCommit(p) ==
  /\ pc[p] = "cc_commit"
  /\ commitments' = [commitments EXCEPT ![call[p].cid] =
                       [@ EXCEPT !.status = "CANCELLED", !.cancel_reason = "ADMIN_CANCEL",
                                 !.cancelled_at = call[p].t0]]
  /\ Wrote(p)
  /\ Return(p, "ok", "CANCELLED", NoTime)
  /\ UNCHANGED <<reqs, inbox, vstatus, now, locks, call, loc, ncalls, hist>>

\* the answer is delivered: the query and its answer are forgotten
FinishPolicy(p) ==
  /\ Close(p)
  /\ probe' = NoProbe
  /\ UNCHANGED <<ntrans, ncommit, rets>>

NextPolicy ==
  \/ Running /\ \E p \in Procs, rider \in Riders, lane \in Lanes, d \in PolicyDays, m \in LockModes :
       BeginPolicyCreate(p, rider, DefaultOperator, lane, d, m)
  \/ Running /\ \E p \in Procs : PolicyInsert(p)
  \/ Running /\ \E p \in Procs, rider \in Riders : BeginActive(p, rider)
  \/ Running /\ \E p \in Procs : GetActive(p)
  \/ Running /\ \E p \in Procs, rider \in Riders, action \in Actions : BeginAccess(p, rider, action)
  \/ Running /\ \E p \in Procs : CheckAccess(p)
  \/ Running /\ \E p \in Procs, cid \in 1..MaxCalls : BeginCancel(p, cid)
  \/ Running /\ \E p \in Procs : CancelRead(p)
  \/ Running /\ \E p \in Procs : CancelCommit(p)
  \/ \E p \in Procs : FinishPolicy(p)

SpecPolicy == Init /\ [][NextPolicy]_vars

\* ------------------------------------- onboarding and the policy routes
\* Two matched requests, the operator's accept and set_inbox_state(ONBOARDED)
\* calls on them, and the calls of the commitment routes by the rider of the
\* first request and by the administrator; both requests were recommended v1.
InitLock == InitLive /\ reqs[2].mv = "v1"

NextLock ==
  \/ Running /\ \E p \in Procs, r \in 1..2 : BeginAccept(p, DefaultOperator, r)
  \/ Running /\ \E p \in Procs : AcLock(p)
  \/ Running /\ \E p \in Procs : AcBlocked(p)
  \/ Running /\ \E p \in Procs : AcPref(p)
  \/ Running /\ \E p \in Procs : AcBox(p)
  \/ Running /\ \E p \in Procs : AcWide(p)
  \/ Running /\ \E p \in Procs : AcCommit(p)
  \/ Running /\ \E p \in Procs : AcCommitment(p)
  \/ Running /\ \E p \in Procs, r \in 1..2 : BeginUpsert(p, DefaultOperator, r, "ONBOARDED")
  \/ Running /\ \E p \in Procs : UpCommit(p)
  \/ Running /\ \E p \in Procs : UpCommitment(p)
  \/ Running /\ \E p \in Procs, lane \in Lanes, m \in LockModes :
       BeginPolicyCreate(p, "ra", DefaultOperator, lane, 1, m)
  \/ Running /\ \E p \in Procs : PolicyInsert(p)
  \/ Running /\ \E p \in Procs : BeginAccess(p, "ra", "VIEW_DEMAND")
  \/ Running /\ \E p \in Procs : CheckAccess(p)
  \/ Running /\ \E p \in Procs, cid \in 1..2 : BeginCancel(p, cid)
  \/ Running /\ \E p \in Procs : CancelRead(p)
  \/ Running /\ \E p \in Procs : CancelCommit(p)
  \/ \E p \in Procs : FinishPolicy(p)

SpecLock == InitLock /\ [][NextLock]_vars

\* ----------------------------------------------------- the scorer alone
VehicleStatuses == {"ACTIVE", "IN_MAINTENANCE", "INACTIVE"}
\* last_lat, last_lon and the distance to the anchor in tenths of a km: no
\* position, half a position, at the anchor, at and beyond the limits
Positions ==
  {<<NoNum, NoNum, NoNum>>, <<LaneLat, NoNum, NoNum>>}
  \cup {<<LaneLat, LaneLon, d>> : d \in {0, 3, 80, 81, 120, 121, 774}}
Batteries == {NoNum, 0, 19, 20, 21, 100}
TelemetryAges == {NoNum, 0, 1, 120, 121, 240, 241, 1000}
\* (max_km in tenths, min_battery_pct, max_telemetry_age_min): those of
\* create_request, those of accept, and a degenerate triple
Constraints ==
  {<<RecMaxKm10, RecMinBatt, RecMaxAge>>, <<AccMaxKm10, AccMinBatt, AccMaxAge>>, <<3, 100, 0>>}
\* (inbox_new, inbox_contacted) of the vehicle's operator
Loads == {<<0, 0>>, <<1, 0>>, <<2, 3>>, <<7, 1>>, <<9, 9>>}

\* a vehicle row and the arguments of one call of the scorer
InitScore ==
  /\ reqs = <<>>
  /\ inbox = <<>>
  /\ commitments = <<>>
  /\ vstatus = [v \in Vehicles |-> "ACTIVE"]
  /\ now = 0
  /\ rlock = [r \in ReqIds |-> NULL]
  /\ ilock = [i \in InboxIds |-> NULL]
  /\ vlock = [v \in Vehicles |-> NULL]
  /\ pc = [p \in Procs |-> "idle"]
  /\ call = [p \in Procs |-> NoCall]
  /\ loc = [p \in Procs |-> NoLoc]
  /\ result = [p \in Procs |-> NoResult]
  /\ wrote = [p \in Procs |-> FALSE]
  /\ ncalls = 0
  /\ ntrans = [r \in ReqIds |-> 0]
  /\ ncommit = [r \in ReqIds |-> 0]
  /\ rets = {}
  /\ \E st \in VehicleStatuses, pos \in Positions, b \in Batteries, a \in TelemetryAges,
        k \in Constraints, l \in Loads :
       probe = [name |-> "snapshot", status |-> st,
                f |-> [lat |-> pos[1], lon |-> pos[2], dist10 |-> pos[3],
                       battery |-> b, age |-> a],
                max_km10 |-> k[1], min_batt |-> k[2], max_age |-> k[3],
                inbox_new |-> l[1], inbox_contacted |-> l[2]]

\* recommend's loop body on that row: score_vehicle, then the load penalty
ScoreSnapshot ==
  /\ probe.name = "snapshot"
  /\ LET out == ScoreOf(probe.f, probe.status, probe.max_km10, probe.min_batt, probe.max_age)
         load_penalty == LoadPenaltyOf(probe.inbox_new, probe.inbox_contacted)
     IN probe' = [name |-> "scored", status |-> probe.status, f |-> probe.f,
                  max_km10 |-> probe.max_km10, min_batt |-> probe.min_batt,
                  max_age |-> probe.max_age,
                  inbox_new |-> probe.inbox_new, inbox_contacted |-> probe.inbox_contacted,
                  score |-> out.score, eligible |-> out.eligible,
                  load_penalty |-> load_penalty,
                  score2 |-> Score2(out.score, load_penalty)]
  /\ UNCHANGED <<db, now, locks, pc, call, loc, result, wrote, ncalls, ntrans, ncommit, rets>>

NextScore == ScoreSnapshot

SpecScore == InitScore /\ [][NextScore]_vars

\* ------------------------------------------------------ the lane anchor
\* Coordinates in this section are in ten-thousandths of a degree, lengths in
\* metres; None is NoNum.
\* lane_id.split(":"), for the lane ids of this section
LaneParts ==
  [lane \in {"store:PUNE:WAKAD", "store:GOA:PANAJI", "zone:free"} |->
     CASE lane = "store:PUNE:WAKAD" -> <<"store", "PUNE", "WAKAD">>
       [] lane = "store:GOA:PANAJI" -> <<"store", "GOA", "PANAJI">>
       [] lane = "zone:free" -> <<"zone", "free">>]

CITY_CENTROIDS ==
  [city \in {"BENGALURU", "BANGALORE", "PUNE", "DELHI", "HYDERABAD"} |->
     CASE city \in {"BENGALURU", "BANGALORE"} -> <<129716, 775946>>
       [] city = "PUNE" -> <<185204, 738567>>
       [] city = "DELHI" -> <<286139, 772090>>
       [] city = "HYDERABAD" -> <<173850, 784867>>]

\* hashlib.sha256(lane_id + ":r" / ":a").hexdigest()[:8], digit by digit
Sha256Head ==
  [seed \in (DOMAIN LaneParts) \X {"r", "a"} |->
     CASE seed = <<"store:PUNE:WAKAD", "r">> -> <<5, 0, 8, 7, 6, 9, 15, 1>>
       [] seed = <<"store:PUNE:WAKAD", "a">> -> <<5, 9, 2, 0, 4, 7, 4, 11>>
       [] seed = <<"store:GOA:PANAJI", "r">> -> <<8, 1, 15, 7, 11, 13, 8, 7>>
       [] seed = <<"store:GOA:PANAJI", "a">> -> <<14, 12, 0, 7, 11, 6, 6, 3>>
       [] seed = <<"zone:free", "r">> -> <<12, 11, 11, 12, 8, 0, 3, 13>>
       [] seed = <<"zone:free", "a">> -> <<2, 5, 15, 3, 15, 12, 11, 10>>]

UnitScale == 10000000
RECURSIVE HexMod(_, _)
\* int(h, 16) % 10_000_000
HexMod(h, acc) ==
  IF h = <<>> THEN acc ELSE HexMod(Tail(h), (acc * 16 + Head(h)) % UnitScale)

\* a unit interval value that changes from call to call
salted_unit_interval(seed) == (HexMod(Sha256Head[seed], 0) + 1234567 * now) % UnitScale
\* _stable_unit_interval, in ten-millionths
stable_unit_interval(seed) == HexMod(Sha256Head[seed], 0)

\* a / b rounded to the nearest integer, b > 0
RoundDiv(a, b) == (2 * a + b) \div (2 * b)

\* math.cos of 0..90 degrees, in ten-thousandths
CosTable ==
  <<10000, 9998, 9994, 9986, 9976, 9962, 9945, 9925, 9903, 9877, 9848, 9816, 9781,
    9744, 9703, 9659, 9613, 9563, 9511, 9455, 9397, 9336, 9272, 9205, 9135, 9063,
    8988, 8910, 8829, 8746, 8660, 8572, 8480, 8387, 8290, 8192, 8090, 7986, 7880,
    7771, 7660, 7547, 7431, 7314, 7193, 7071, 6947, 6820, 6691, 6561, 6428, 6293,
    6157, 6018, 5878, 5736, 5592, 5446, 5299, 5150, 5000, 4848, 4695, 4540, 4384,
    4226, 4067, 3907, 3746, 3584, 3420, 3256, 3090, 2924, 2756, 2588, 2419, 2250,
    2079, 1908, 1736, 1564, 1392, 1219, 1045, 872, 698, 523, 349, 175, 0>>
CosDeg(d) ==
  LET e == d % 360
  IN CASE e <= 90 -> CosTable[e + 1]
       [] e > 90 /\ e <= 180 -> -CosTable[180 - e + 1]
       [] e > 180 /\ e <= 270 -> -CosTable[e - 180 + 1]
       [] OTHER -> CosTable[360 - e + 1]
\* math.cos(math.radians(lat))
CosLat(lat) == CosTable[Min(90, Max(RoundDiv(lat, 10000), -RoundDiv(lat, 10000))) + 1]

\* the square of haversine_km, computed on the plane, in km^2
haversine_km2(lat1, lon1, lat2, lon2) ==
  LET dy == RoundDiv(Max(lat2 - lat1, lat1 - lat2) * 111, 10000)
      dx == RoundDiv(RoundDiv(Max(lon2 - lon1, lon1 - lon2) * 111, 10000) * CosLat(RoundDiv(lat1 + lat2, 2)), 10000)
  IN dy * dy + dx * dx

\* _offset_point_km with r in metres and the angle in degrees
offset_point_km(lat, lon, r_m, angle_deg) ==
  LET dlat == RoundDiv(r_m * CosDeg(angle_deg), 111000)
      dlon == RoundDiv(RoundDiv(r_m * CosDeg(angle_deg + 270), 111) * 10, Max(2000, CosLat(lat)))
  IN <<lat + dlat, lon + dlon>>

lane_anchor(lane_id, rider_lat, rider_lon) ==
  LET parts == LaneParts[lane_id]
      \* (rider_lat or 18.5204, rider_lon or 73.8567): None and 0.0 give the default
      home == <<IF rider_lat = NoNum \/ rider_lat = 0 THEN CITY_CENTROIDS["PUNE"][1] ELSE rider_lat,
                IF rider_lon = NoNum \/ rider_lon = 0 THEN CITY_CENTROIDS["PUNE"][2] ELSE rider_lon>>
  IN IF Len(parts) > 1 /\ parts[1] = "store"
       THEN LET city == parts[2]
                first == IF city \in DOMAIN CITY_CENTROIDS THEN CITY_CENTROIDS[city]
                         ELSE home
                base == IF /\ rider_lat # NoNum /\ rider_lon # NoNum
                           /\ haversine_km2(rider_lat, rider_lon, first[1], first[2]) > 200 * 200
                          THEN <<rider_lat, rider_lon>> ELSE first
                u1 == stable_unit_interval(<<lane_id, "r">>)
                u2 == stable_unit_interval(<<lane_id, "a">>)
                r_m == 1000 + RoundDiv(7 * u1, 10000)
                pt == offset_point_km(base[1], base[2], r_m, RoundDiv(u2 * 36, 1000000))
            IN [lat |-> pt[1], lon |-> pt[2], source |-> "store:stable_offset"]
       ELSE [lat |-> home[1], lon |-> home[2], source |-> "fallback:rider_or_city"]

\* a call of lane_anchor with these arguments begins
AskAnchor(lane, c) ==
  /\ probe.name \in {"none", "anchored"}
  /\ ncalls < MaxCalls
  /\ ncalls' = ncalls + 1
  /\ now' = now + 1
  /\ probe' = [name |-> "anchor_args", lane |-> lane, lat |-> c[1], lon |-> c[2]]
  /\ UNCHANGED <<db, locks, pc, call, loc, result, wrote, ntrans, ncommit, rets>>

\* the call returns
LaneAnchor ==
  /\ probe.name = "anchor_args"
  /\ LET out == lane_anchor(probe.lane, probe.lat, probe.lon)
     IN /\ probe' = [name |-> "anchored", lane |-> probe.lane, lat |-> probe.lat,
                     lon |-> probe.lon, out |-> out]
        /\ rets' = rets \cup {[lane |-> probe.lane, lat |-> probe.lat, lon |-> probe.lon,
                               t |-> now, out |-> out]}
  /\ UNCHANGED <<db, now, locks, pc, call, loc, result, wrote, ncalls, ntrans, ncommit>>

NextAnchor ==
  \* requester coordinates: none, (0.0, 0.0), Delhi, Pune
  \/ \E lane \in DOMAIN LaneParts,
        c \in {<<NoNum, NoNum>>, <<0, 0>>, <<286140, 772090>>, <<185300, 738500>>} :
       AskAnchor(lane, c)
  \/ LaneAnchor

SpecAnchor == Init /\ [][NextAnchor]_vars

\* ================================================================= claims
\* the inbox state of request r for operator op is ONBOARDED
Onboarded(op, r) == \E i \in InboxRows(op, r) : inbox[i].state = "ONBOARDED"

\* C1: no two distinct requests of one operator are ONBOARDED with the same
\* non-null matched_vehicle_id, in any reachable state.
C1_NoVehicleOnboardedTwice ==
  \A r1, r2 \in 1..Len(reqs) :
    (/\ r1 # r2
     /\ reqs[r1].op # NULL
     /\ reqs[r1].op = reqs[r2].op
     /\ Onboarded(reqs[r1].op, r1)
     /\ Onboarded(reqs[r2].op, r2)
     /\ reqs[r1].mv # NULL)
    => reqs[r1].mv # reqs[r2].mv

\* handler p is an accept that has committed its assignment and not yet returned
Committed(p) == call[p].name = "accept" /\ pc[p] = "ac_commitment"

\* C2: two accept calls in flight together on different requests of one
\* operator never both commit the same vehicle.
C2_ConcurrentAcceptsDistinctVehicles ==
  \A p, q \in Procs :
    (/\ p # q
     /\ Committed(p)
     /\ Committed(q)
     /\ call[p].op = call[q].op
     /\ call[p].r # call[q].r)
    => loc[p].chosen # loc[q].chosen

\* requests of the rider that are not rejected and not yet picked up
ActiveRequests(rider) ==
  {r \in 1..Len(reqs) : /\ reqs[r].rider = rider
                        /\ reqs[r].status # "REJECTED"
                        /\ reqs[r].pva = NoTime}

\* C6: every rider has at most one request with status # REJECTED and
\* pickup_verified_at null, in any reachable state.
C6_OneActiveRequestPerRider ==
  \A rider \in Riders : Cardinality(ActiveRequests(rider)) <= 1

AllIdle == \A p \in Procs : pc[p] = "idle"

\* C7: for a request of the calling operator, the commitments created for its
\* changes into ONBOARDED never outnumber those changes, and equal them once
\* every call has returned.
C7_OneCommitmentPerTransition ==
  \A r \in 1..Len(reqs) :
    reqs[r].op \in Callers =>
      /\ ncommit[r] <= ntrans[r]
      /\ AllIdle => ncommit[r] = ntrans[r]

AllowedTransitions ==
  {<<"NEW", "CONTACTED">>, <<"NEW", "ONBOARDED">>, <<"CONTACTED", "ONBOARDED">>,
   <<"NEW", "REJECTED">>, <<"CONTACTED", "REJECTED">>}

\* C8: every change of an inbox state is one of NEW->CONTACTED,
\* NEW->ONBOARDED, CONTACTED->ONBOARDED, NEW->REJECTED, CONTACTED->REJECTED
\* (a missing row counts as NEW).
C8_OnlyAllowedTransitions ==
  [][\A i \in 1..Len(inbox') :
       LET old == IF i <= Len(inbox) THEN inbox[i].state ELSE "NEW"
           new == inbox'[i].state
       IN old # new => <<old, new>> \in AllowedTransitions]_vars

\* C9: there is at most one inbox row per (operator_id, request_id) pair, in
\* any reachable state.
C9_OneInboxRowPerPair ==
  \A op \in Operators, r \in ReqIds : Cardinality(InboxRows(op, r)) <= 1

\* the answers given so far: those returned and those about to be
Answers == rets \cup {Answer(p) : p \in {q \in Procs : pc[q] = "done"}}

\* C3: of the accept calls running on one request that was not ONBOARDED and
\* had a vehicle available, exactly one writes a new assignment and all of
\* them return the same matched_vehicle_id.
C3_SameRequestOneAssignment ==
  /\ ntrans[SameReq] <= 1
  /\ \A a \in Answers : /\ a.kind = "ok"
                        /\ a.v # NULL
                        /\ a.v = reqs[SameReq].mv
                        /\ ntrans[SameReq] = 1

\* a handler that waited for the other's lock and then found its assignment
C3_Witness ==
  \E p \in Procs :
    /\ pc[p] = "done"
    /\ loc[p].prev = "ONBOARDED"
    /\ result[p].v = reqs[SameReq].mv
    /\ [kind |-> "ok", v |-> result[p].v] \in rets
    /\ \E i \in InboxRows(DefaultOperator, SameReq) : inbox[i].updated_at > call[p].t0

\* the inbox state of the pair (op, r) held in its one row; NULL without one
InboxState(op, r) ==
  LET rows == InboxRows(op, r)
  IN IF Cardinality(rows) = 1 THEN inbox[CHOOSE i \in rows : TRUE].state ELSE NULL

\* C4: accept on a request whose inbox state is already ONBOARDED with
\* vehicle V returns V and changes nothing: the request, the inbox row and the
\* commitments stay as they were.
C4_AcceptOnboardedIsIdempotent ==
  [][\A p \in Procs :
       (/\ call[p].name = "accept"
        /\ pc[p] = "ac_lock"
        /\ pc'[p] # "ac_lock"
        /\ ReqFound(call[p].op, call[p].r)
        /\ InboxState(call[p].op, call[p].r) = "ONBOARDED")
       => /\ pc'[p] = "done"
          /\ result'[p] = [kind |-> "ok", v |-> reqs[call[p].r].mv, t |-> NoTime]
          /\ reqs' = reqs
          /\ inbox' = inbox
          /\ commitments' = commitments
          /\ wrote'[p] = FALSE]_vars

C4_Witness ==
  \E p \in Procs :
    /\ call[p].name = "accept"
    /\ pc[p] = "done"
    /\ loc[p].prev = "ONBOARDED"
    /\ result[p].kind = "ok"
    /\ result[p].v \in Vehicles

\* the operator has no vehicle whose status is ACTIVE
NoActiveVehicle(op) == \A v \in Vehicles : Fleet[v].op = op => vstatus[v] # "ACTIVE"

\* C5: while the operator has no ACTIVE vehicle, the vehicle search of accept
\* picks none and ends with Conflict, and the call has changed no row.
C5_NoVehicleConflict ==
  [][\A p \in Procs :
       (/\ call[p].name = "accept"
        /\ pc[p] \in {"ac_pref", "ac_box", "ac_wide"}
        /\ pc'[p] # pc[p]
        /\ NoActiveVehicle(call[p].op))
       => /\ pc'[p] \in {"ac_box", "ac_wide", "done"}
          /\ pc[p] = "ac_wide" => pc'[p] = "done"
          /\ pc'[p] = "done" => result'[p].kind = "Conflict"
          /\ reqs' = reqs
          /\ inbox' = inbox
          /\ commitments' = commitments
          /\ wrote'[p] = FALSE]_vars

C5_Witness ==
  \E p \in Procs :
    /\ call[p].name = "accept"
    /\ pc[p] = "done"
    /\ result[p].kind = "Conflict"
    /\ NoActiveVehicle(call[p].op)
    /\ ~wrote[p]

\* what a verify_pickup step from the comparison of the code must do when
\* the code is refused
RefusedUnchanged(p) ==
  /\ pc'[p] = "done"
  /\ result'[p].kind = "Validation"
  /\ reqs' = reqs
  /\ inbox' = inbox
  /\ wrote'[p] = FALSE

\* handler p compares the code of an ONBOARDED request not yet verified
ComparesCode(p) ==
  /\ call[p].name = "verify_pickup"
  /\ pc[p] = "vp_check"
  /\ pc'[p] # "vp_check"
  /\ InboxState(call[p].op, call[p].r) = "ONBOARDED"
  /\ reqs[call[p].r].pva = NoTime

\* C10 as stated: verify_pickup on an ONBOARDED, not yet verified request with
\* a code different from the expected short code fails with Validation and
\* leaves pickup_verified_at, pickup_verified_by and the inbox row unchanged.
C10_AnyOtherCodeRefused ==
  [][\A p \in Procs :
       (ComparesCode(p) /\ call'[p].code # ExpectedCode(call[p].r))
       => RefusedUnchanged(p)]_vars

\* C10: verify_pickup on an ONBOARDED, not yet verified request with a code
\* that, trimmed and upper-cased, differs from the expected short code fails
\* with Validation and leaves pickup_verified_at, pickup_verified_by and the
\* inbox row unchanged.
C10_MismatchRefused ==
  [][\A p \in Procs :
       (ComparesCode(p) /\ Upper(Strip(call'[p].code)) # ExpectedCode(call[p].r))
       => RefusedUnchanged(p)]_vars

C10_Witness ==
  \E p \in Procs :
    /\ call[p].name = "verify_pickup"
    /\ pc[p] = "done"
    /\ result[p].kind = "Validation"
    /\ Upper(Strip(call[p].code)) # ExpectedCode(call[p].r)
    /\ InboxState(call[p].op, call[p].r) = "ONBOARDED"
    /\ reqs[call[p].r].pva = NoTime

\* C11: once a request is verified, pickup_verified_at and pickup_verified_by
\* are never changed again, and every later verify_pickup on it returns the
\* original pickup_verified_at.
C11_VerifiedStaysVerified ==
  [][/\ \A r \in 1..Len(reqs) :
          reqs[r].pva # NoTime => /\ reqs'[r].pva = reqs[r].pva
                                  /\ reqs'[r].pvb = reqs[r].pvb
     /\ \A p \in Procs :
          (/\ call[p].name = "verify_pickup"
           /\ pc[p] = "vp_check"
           /\ pc'[p] # "vp_check"
           /\ reqs[call[p].r].pva # NoTime)
          => /\ pc'[p] = "done"
             /\ result'[p].kind = "ok"
             /\ result'[p].t = reqs[call[p].r].pva]_vars

\* handler p checks the pickup of a request whose inbox state is NEW,
\* CONTACTED or REJECTED, or that has no inbox row
ChecksUnapproved(p) ==
  /\ call[p].name = "verify_pickup"
  /\ pc[p] = "vp_check"
  /\ pc'[p] # "vp_check"
  /\ \/ InboxRows(call[p].op, call[p].r) = {}
     \/ InboxState(call[p].op, call[p].r) \in {"NEW", "CONTACTED", "REJECTED"}

\* C12: verify_pickup on a request whose inbox state is not ONBOARDED (NEW,
\* CONTACTED, REJECTED or no row) fails with Conflict whatever code is
\* entered, and sets neither pickup_verified_at nor pickup_verified_by.
C12_UnapprovedPickupRefused ==
  [][\A p \in Procs :
       ChecksUnapproved(p)
       => /\ pc'[p] = "done"
          /\ result'[p].kind = "Conflict"
          /\ reqs' = reqs
          /\ inbox' = inbox
          /\ wrote'[p] = FALSE]_vars

\* the right code, refused because the request is not ONBOARDED
C12_Witness ==
  \E p \in Procs :
    /\ call[p].name = "verify_pickup"
    /\ pc[p] = "done"
    /\ result[p].kind = "Conflict"
    /\ call[p].code = ExpectedCode(call[p].r)
    /\ InboxState(call[p].op, call[p].r) \in {"NEW", "CONTACTED", "REJECTED"}
    /\ reqs[call[p].r].pva = NoTime

\* C13: for an ONBOARDED request not yet verified, verify_pickup with the
\* short code issued to the rider for that request passes the comparison,
\* and the call then records pickup_verified_at and returns it.
C13_IssuedCodeVerifies ==
  [][\A p \in Procs :
       /\ (/\ ComparesCode(p)
           /\ rider_pickup_code(call[p].r) # NoCode
           /\ call'[p].code = rider_pickup_code(call[p].r))
          => pc'[p] = "vp_flush"
       /\ (/\ call[p].name = "verify_pickup"
           /\ pc[p] = "vp_commit"
           /\ pc'[p] # "vp_commit")
          => /\ pc'[p] = "done"
             /\ result'[p].kind = "ok"
             /\ reqs'[call[p].r].pva # NoTime
             /\ result'[p].t = reqs'[call[p].r].pva]_vars

C13_Witness ==
  \E p \in Procs :
    /\ call[p].name = "verify_pickup"
    /\ pc[p] = "done"
    /\ result[p].kind = "ok"
    /\ wrote[p]
    /\ reqs[call[p].r].mv # NULL
    /\ call[p].code = pickup_qr_code(call[p].r, reqs[call[p].r].op,
                                     rider_vehicle_reg(call[p].r))
    /\ reqs[call[p].r].pva = result[p].t

\* the commitments of the rider that are ACTIVE with t inside their window
InWindow(rider, t) ==
  {i \in 1..Len(commitments) :
     /\ commitments[i].rider = rider
     /\ commitments[i].status = "ACTIVE"
     /\ commitments[i].starts_at <= t
     /\ t < commitments[i].ends_at}

\* the most recently created of them
MostRecent(ids) ==
  CHOOSE i \in ids : \A j \in ids : commitments[j].created_at <= commitments[i].created_at

\* C15: get_active returns the most recently created commitment among those
\* of the requester that are ACTIVE with starts_at <= now < ends_at, and null
\* only when there is none.
C15_GetActiveMostRecentInWindow ==
  probe.name = "get_active" =>
    IF InWindow(probe.rider, probe.t) = {}
      THEN probe.cid = NoCommitment
      ELSE probe.cid = MostRecent(InWindow(probe.rider, probe.t))

\* C14: while the requester's active commitment is a HIDE_ALL_DEMAND one,
\* check_access(view demand) answers allowed=false with unlock_at equal to its
\* ends_at; once no commitment's window contains the time, it answers
\* allowed=true.
C14_HideAllLocksUntilEnd ==
  (probe.name = "check_access" /\ probe.action = "VIEW_DEMAND") =>
    LET active == InWindow(probe.rider, probe.t)
    IN IF active = {} THEN probe.decision.allowed
       ELSE commitments[MostRecent(active)].lock_mode = "HIDE_ALL_DEMAND"
            => /\ ~probe.decision.allowed
               /\ probe.decision.unlock_at = commitments[MostRecent(active)].ends_at

\* C16: check_access(view demand) follows the decision table: no active
\* commitment, allowed with no reason, unlock_at or lane; active commitment
\* RESTRICT_TO_LANE, allowed with its lane and unlock_at = ends_at; active
\* commitment HIDE_ALL_DEMAND, not allowed.
C16_AccessDecisionTable ==
  (probe.name = "check_access" /\ probe.action = "VIEW_DEMAND") =>
    LET active == InWindow(probe.rider, probe.t)
        d == probe.decision
    IN IF active = {}
         THEN d = PolicyDecision(TRUE, NULL, NoTime, NULL)
       ELSE IF commitments[MostRecent(active)].lock_mode = "RESTRICT_TO_LANE"
         THEN /\ d.allowed
              /\ d.allowed_lane_id = commitments[MostRecent(active)].lane
              /\ d.unlock_at = commitments[MostRecent(active)].ends_at
       ELSE ~d.allowed

\* C17: a cancel that finds the commitment ACTIVE ends with it CANCELLED; a
\* commitment that is CANCELLED or COMPLETED keeps its status, cancelled_at
\* and cancel_reason whatever runs; an unknown id is answered NotFound; no
\* step returns a commitment's status to ACTIVE.
C17_CancelIsIdempotent ==
  [][/\ \A c \in 1..Len(commitments) :
          /\ commitments[c].status \in {"CANCELLED", "COMPLETED"}
             => /\ commitments'[c].status = commitments[c].status
                /\ commitments'[c].cancelled_at = commitments[c].cancelled_at
                /\ commitments'[c].cancel_reason = commitments[c].cancel_reason
          /\ commitments'[c].status = "ACTIVE" => commitments[c].status = "ACTIVE"
     /\ \A p \in Procs :
          (call[p].name = "cancel" /\ pc[p] = "cc_read" /\ pc'[p] # "cc_read")
          => /\ call[p].cid \notin 1..Len(commitments)
                => pc'[p] = "done" /\ result'[p].kind = "NotFound"
             /\ call[p].cid \in 1..Len(commitments)
                => pc'[p] \in {"done", "cc_commit"}
     /\ \A p \in Procs :
          (call[p].name = "cancel" /\ pc[p] = "cc_commit" /\ pc'[p] # "cc_commit")
          => /\ commitments'[call[p].cid].status = "CANCELLED"
             /\ result'[p].kind = "ok"]_vars

\* vehicle v is the matched vehicle of a request that is ONBOARDED for the
\* vehicle's operator
Blocked(v) == v \in BlockedVehicles(Fleet[v].op)

\* C18: recommend never returns a blocked vehicle, as recommended or as an
\* alternative, and create_request never records a blocked vehicle as the
\* matched vehicle of the new request.
C18_NoBlockedVehicleRecommended ==
  [][\A p \in Procs :
       /\ (call[p].name = "create_request" /\ call[p].op = NULL
           /\ pc[p] = "cr_insert" /\ pc'[p] = "cr_commit")
          => /\ \A v \in RecCandidates : ~Blocked(v)
             /\ loc'[p].top # NULL => ~Blocked(loc'[p].top)
       /\ (call[p].name = "create_request"
           /\ pc[p] = "cr_commit" /\ pc'[p] = "done")
          => \/ reqs'[loc[p].newreq].mv = NULL
             \/ ~Blocked(reqs'[loc[p].newreq].mv)]_vars

\* the four predicates of eligibility on the scored row
StatusActive == probe.status = "ACTIVE"
NearEnough ==
  (probe.f.lat = NoNum \/ probe.f.lon = NoNum) \/ probe.f.dist10 <= probe.max_km10
Charged == probe.f.battery = NoNum \/ probe.f.battery >= probe.min_batt
Fresh == probe.f.age # NoNum /\ probe.f.age <= probe.max_age

\* C19: the scorer answers eligible=true exactly when the status is ACTIVE,
\* the position is unknown or within max_distance_km, the battery is unknown
\* or at least min_battery_pct, and telemetry is present and not older than
\* max_telemetry_age_minutes; so each predicate failing alone gives false.
C19_EligibleExactlyWhen ==
  probe.name = "scored" =>
    (probe.eligible <=> (StatusActive /\ NearEnough /\ Charged /\ Fresh))

\* telemetry is missing, everything else is valid, and the row is not eligible
C19_Witness ==
  /\ probe.name = "scored"
  /\ StatusActive /\ NearEnough /\ Charged
  /\ probe.f.age = NoNum
  /\ ~probe.eligible

\* C20: the scorer's score lies in [0,100], the operator backlog penalty is
\* at most 12, and the load-adjusted score lies in [0,100].
C20_ScoresWithinBounds ==
  probe.name = "scored" =>
    /\ probe.score \in 0..10000
    /\ probe.load_penalty \in 0..1200
    /\ probe.score2 \in 0..10000

\* the components add up to more than 100 and the full penalty applies
C20_Witness ==
  /\ probe.name = "scored"
  /\ probe.f.lat # NoNum /\ probe.f.lon # NoNum /\ probe.f.dist10 = 0
  /\ probe.f.battery = 100
  /\ probe.f.age = 0
  /\ probe.score = 10000
  /\ probe.load_penalty = 1200
  /\ probe.score2 = 8800

\* requests of operator op whose inbox state is st, a request without an
\* inbox row counting as NEW
RequestsInState(op, st) ==
  {r \in 1..Len(reqs) :
     /\ reqs[r].op = op
     /\ IF InboxRows(op, r) = {} THEN st = "NEW"
        ELSE \E i \in InboxRows(op, r) : inbox[i].state = st}

\* C21: the backlog penalty recommend subtracts for an operator equals
\* min(12, 1.6 N + 0.6 C), N the operator's requests in NEW (a request without
\* an inbox row included) and C its requests in CONTACTED.
C21_PenaltyCountsMissingRowsAsNew ==
  [][\A p \in Procs :
       (call[p].name = "create_request" /\ call[p].op = NULL
        /\ pc[p] = "cr_insert" /\ pc'[p] = "cr_commit")
       => \A v \in RecCandidates :
            LoadPenalty(Fleet[v].op)
              = Min(1200, 160 * Cardinality(RequestsInState(Fleet[v].op, "NEW"))
                          + 60 * Cardinality(RequestsInState(Fleet[v].op, "CONTACTED")))]_vars

\* handler p waits for a row lock that handler q holds
WaitsFor(p, q) ==
  \/ /\ pc[p] = "ac_lock"
     /\ ReqFound(call[p].op, call[p].r)
     /\ \/ rlock[call[p].r] = q
        \/ \E i \in InboxRows(call[p].op, call[p].r) : ilock[i] = q
  \/ /\ pc[p] = "vp_lock"
     /\ ReqFound(call[p].op, call[p].r)
     /\ rlock[call[p].r] = q
  \/ /\ pc[p] = "up_commit"
     /\ \E i \in loc[p].rows : ilock[i] = q

\* C22: the lock waits never form a cycle, and under fair scheduling every
\* accept call returns, with an assignment (new or existing), NotFound or
\* Conflict, after one pass through the handler.
C22_AcceptsReturnWithoutDeadlock ==
  /\ [](\A p \in Procs : \A q \in Procs \ {p} : ~(WaitsFor(p, q) /\ WaitsFor(q, p)))
  /\ \A p \in Procs : (call[p].name = "accept" /\ pc[p] # "done")
                          ~> (call[p].name = "accept" /\ pc[p] = "done")
  /\ [](\A p \in Procs : (call[p].name = "accept" /\ pc[p] = "done") =>
                            result[p].kind \in {"ok", "NotFound", "Conflict"})

\* C23: the rows of one accept call change together or not at all: its one
\* writing step sets the request's matched vehicle, score and reasons and the
\* inbox state ONBOARDED at once, no other step of it changes a request or an
\* inbox row, and an accept that fails has written nothing.
C23_AcceptWritesAreAtomic ==
  [][\A p \in Procs :
       (call[p].name = "accept" /\ pc'[p] # pc[p] /\ pc[p] # "done") =>
         /\ IF pc[p] = "ac_commit"
              THEN /\ reqs'[call[p].r].mv = loc[p].chosen
                   /\ reqs'[call[p].r].ms # NoScore
                   /\ Onboarded(call[p].op, call[p].r)'
                   /\ wrote'[p]
              ELSE reqs' = reqs /\ inbox' = inbox /\ wrote'[p] = wrote[p]
         /\ (pc'[p] = "done" /\ result'[p].kind # "ok") => ~wrote'[p]]_vars

\* an accept has just committed a vehicle other than the recommended one
C23_Witness ==
  \E p \in Procs :
    /\ call[p].name = "accept"
    /\ pc[p] = "ac_commitment"
    /\ wrote[p]
    /\ reqs[call[p].r].mv = loc[p].chosen
    /\ reqs[call[p].r].mv # "v1"
    /\ Onboarded(call[p].op, call[p].r)

\* C24: accept, set_inbox_state and verify_pickup on a request id that does
\* not exist for the calling operator answer NotFound and create or change no
\* row; set_inbox_state inserts no inbox row for such a request.
C24_UnknownRequestIsNotFound ==
  [][\A p \in Procs :
       (/\ pc'[p] # pc[p]
        /\ call'[p].name \in {"accept", "set_inbox_state", "verify_pickup"}
        /\ ~ReqFound(call'[p].op, call'[p].r)) =>
       /\ reqs' = reqs /\ inbox' = inbox /\ commitments' = commitments
       /\ pc'[p] = "done" => result'[p].kind = "NotFound"]_vars

PreferredUsable(p) ==
  LET mv == reqs[call[p].r].mv
  IN /\ mv # NULL
     /\ Fleet[mv].op = call[p].op
     /\ vstatus[mv] = "ACTIVE"
     /\ mv \notin loc[p].blocked
     /\ InBox(mv)
     /\ \A q \in Procs \ {p} : vlock[mv] # q

\* C26: when the vehicle recommended for the request belongs to the accepting
\* operator, is ACTIVE, is not in the blocked set, lies inside the bounding
\* box and is not locked by another transaction, accept takes that vehicle
\* and commits it as the assignment, whatever other vehicles are available.
C26_PreferredVehicleIsAssigned ==
  [][\A p \in Procs :
       /\ (pc[p] = "ac_pref" /\ pc'[p] # "ac_pref" /\ PreferredUsable(p)) =>
            (pc'[p] = "ac_commit" /\ loc'[p].chosen = reqs[call[p].r].mv)
       /\ (pc[p] = "ac_commit" /\ pc'[p] # "ac_commit") =>
            reqs'[call[p].r].mv = loc[p].chosen]_vars

\* the recommended v1 was assigned although v2, with the fuller battery, was free
C26_Witness ==
  \E p \in Procs :
    /\ call[p].name = "accept" /\ pc[p] = "ac_commitment"
    /\ loc[p].chosen = "v1" /\ reqs[call[p].r].mv = "v1"
    /\ vstatus["v2"] = "ACTIVE" /\ "v2" \notin loc[p].blocked /\ vlock["v2"] = NULL


C28_CommittedVehicleIsActive ==
  [][\A p \in Procs : (pc[p] = "ac_commit" /\ pc'[p] # "ac_commit") =>
       LET v == reqs'[call[p].r].mv
       IN /\ v \in Vehicles
          /\ Fleet[v].op = call[p].op
          /\ vstatus[v] = "ACTIVE" /\ vstatus'[v] = "ACTIVE"
          /\ v \notin loc[p].blocked]_vars

\* an accept has committed v2 after a maintenance ticket took v1 away
C28_Witness ==
  \E p \in Procs :
    /\ call[p].name = "accept" /\ pc[p] = "done" /\ result[p].kind = "ok"
    /\ wrote[p] /\ reqs[call[p].r].mv = "v2"
    /\ vstatus["v1"] = "IN_MAINTENANCE"

\* C29: while the inbox state of a request stays ONBOARDED, no accept,
\* set_inbox_state, create_request or verify_pickup call changes the
\* request's matched_vehicle_id, matched_score or matched_reasons.
C29_OnboardedMatchIsFrozen ==
  [][\A r \in 1..Len(reqs) :
       \* r has inbox rows for its operator and every one of them is ONBOARDED
       LET onboarded == /\ InboxRows(reqs[r].op, r) # {}
                        /\ \A i \in InboxRows(reqs[r].op, r) : inbox[i].state = "ONBOARDED"
       IN (onboarded /\ onboarded') =>
       /\ reqs'[r].mv = reqs[r].mv
       /\ reqs'[r].ms = reqs[r].ms
       /\ reqs'[r].mr = reqs[r].mr]_vars

\* C30: once a first accept, or a first set_inbox_state into ONBOARDED, has
\* made its commitment, check_access(requester, VIEW_DEMAND) answers
\* allowed = false at every time until 5 days later or until an administrator
\* cancels the commitment, whatever other calls happen in between.
C30_OnboardingHidesDemand ==
  \* a HIDE_ALL_DEMAND commitment of CommitDays days, as accept and
  \* set_inbox_state make it, not cancelled, whose window holds the time
  LET locked == \E i \in 1..Len(commitments) :
                  /\ commitments[i].rider = probe.rider
                  /\ commitments[i].lock_mode = "HIDE_ALL_DEMAND"
                  /\ commitments[i].ends_at - commitments[i].starts_at = CommitDays
                  /\ commitments[i].status = "ACTIVE"
                  /\ commitments[i].starts_at <= probe.t /\ probe.t < commitments[i].ends_at
  IN (probe.name = "check_access" /\ probe.action = "VIEW_DEMAND" /\ locked)
       => ~probe.decision.allowed

====
